---- MODULE Spec2Model ----
(***************************************************************************)
(* Model of the download manager of bids-collector-desktop                 *)
(* (src-tauri/src/lib.rs): the shared DownloadState registry, the Tauri    *)
(* commands that act on it and the background worker that every            *)
(* start_download_task spawns; and of the connection test of               *)
(* src-tauri/src/s3_client.rs.                                             *)
(***************************************************************************)
EXTENDS Integers, Sequences, FiniteSets, TLC

\* ---------------------------------------------------------------- bounds
MaxWorkers == 2     \* background workers spawned in one run
MaxFiles == 2       \* entries of a manifest
MaxSize == 1        \* declared size of a manifest entry, in bytes

TaskIds == {"t1", "t2"}
\* task ids are interchangeable: the first submission of a run takes this one
FirstTaskId == "t1"
Workers == 1..MaxWorkers
Sizes == 0..MaxSize

\* Option<T>: None and Some(x)
None == <<>>
Some(x) == <<x>>
\* the value of chrono::Utc::now().to_rfc3339() (the clock is not modelled)
Now == "now"
\* HashMap::get of an absent key
NoEntry == [absent |-> TRUE]
\* before the first test_s3_connection call
NoProbe == [called |-> FALSE]
\* before the first call of a helper function
NoCall == [fn |-> "none"]

VARIABLES
    downloads,   \* DownloadState: task id -> DownloadProgress, or NoEntry
    workers,     \* the tokio tasks spawned so far: worker -> its locals
    probe,       \* the last test_s3_connection call: its config, what the
                 \* network did and what the command returned, or NoProbe
    call         \* the last call of one of the helper functions: its name,
                 \* its input and what it returned, or NoCall

vars == <<downloads, workers, probe, call>>

\* ------------------------------------------------------------ task_data
\* The serde_json::Value a caller passes to start_download_task, reduced to
\* the fields perform_download and download_to_s3_storage look at.
\*   storageType: the "type" of the first local / s3-compatible location,
\*                "missing" without storageLocations, "incompatible" when no
\*                location has a compatible type.
TaskData(task, provider, downloadPath, storageType, path, bucketName, endpoint, credentials, validUrl) ==
    [task |-> task, datasetProvider |-> provider, downloadPath |-> downloadPath,
     storageType |-> storageType, path |-> path, bucketName |-> bucketName,
     endpoint |-> endpoint, credentials |-> credentials, validUrl |-> validUrl]

GoodLocal == TaskData(TRUE, "openneuro", TRUE, "local", TRUE, FALSE, FALSE, FALSE, FALSE)
GoodS3 == TaskData(TRUE, "openneuro", TRUE, "s3-compatible", TRUE, TRUE, TRUE, TRUE, TRUE)
NoTask == TaskData(FALSE, "openneuro", TRUE, "local", TRUE, FALSE, FALSE, FALSE, FALSE)
NoDownloadPath == TaskData(TRUE, "openneuro", FALSE, "local", TRUE, FALSE, FALSE, FALSE, FALSE)
NoStorageLocations == TaskData(TRUE, "openneuro", TRUE, "missing", TRUE, FALSE, FALSE, FALSE, FALSE)
NoCompatibleLocation == TaskData(TRUE, "openneuro", TRUE, "incompatible", TRUE, FALSE, FALSE, FALSE, FALSE)
NoStoragePath == TaskData(TRUE, "openneuro", TRUE, "local", FALSE, FALSE, FALSE, FALSE, FALSE)
NoBucket == TaskData(TRUE, "openneuro", TRUE, "s3-compatible", TRUE, FALSE, TRUE, TRUE, TRUE)
NoEndpoint == TaskData(TRUE, "openneuro", TRUE, "s3-compatible", TRUE, TRUE, FALSE, TRUE, TRUE)
NoCredentials == TaskData(TRUE, "openneuro", TRUE, "s3-compatible", TRUE, TRUE, TRUE, FALSE, TRUE)
BadEndpointUrl == TaskData(TRUE, "openneuro", TRUE, "s3-compatible", TRUE, TRUE, TRUE, TRUE, FALSE)
OtherProvider == TaskData(TRUE, "other", TRUE, "local", TRUE, FALSE, FALSE, FALSE, FALSE)

\* the task descriptions a caller submits
TaskDatas == {GoodLocal, GoodS3, NoTask, NoBucket, BadEndpointUrl, OtherProvider}

\* ------------------------------------------------------------- progress
\* An f64 percentage, kept as an exact fraction in lowest terms.
RECURSIVE Gcd(_, _)
Gcd(a, b) == IF b = 0 THEN a ELSE Gcd(b, a % b)

Pct(n, d) == LET g == Gcd(n, d) IN [num |-> n \div g, den |-> d \div g]

PctLeq(p, q) == p.num * q.den <= q.num * p.den

\* (downloaded_bytes as f64 / total_size as f64 * 100.0).round(), 0.0 when
\* total_size is 0; f64::round rounds half away from zero.
LocalPercent(downloaded_bytes, total_size) ==
    IF total_size > 0
    THEN Pct((200 * downloaded_bytes + total_size) \div (2 * total_size), 1)
    ELSE Pct(0, 1)

\* (uploaded_size as f64 / total_size as f64 * 100.0).min(100.0); with
\* total_size 0 the quotient is NaN or +inf and f64::min returns 100.0.
S3Percent(uploaded_size, total_size) ==
    IF total_size = 0 \/ uploaded_size >= total_size
    THEN Pct(100, 1)
    ELSE Pct(100 * uploaded_size, total_size)

\* ------------------------------------------------------------- manifest
\* The Vec<S3FileInfo> parse_s3_listing returned: the declared sizes, the
\* key of entry i being FileKey(i).
RECURSIVE SeqsUpTo(_, _)
SeqsUpTo(S, n) ==
    IF n = 0 THEN {<<>>}
    ELSE LET shorter == SeqsUpTo(S, n - 1)
         IN shorter \cup {Append(s, x) : s \in {t \in shorter : Len(t) = n - 1}, x \in S}

Manifests == SeqsUpTo(Sizes, MaxFiles)

\* file_list.iter().map(|f| f.size).sum(), a u64 sum: the sizes modelled here
\* stay far below 2^64, so it never wraps
RECURSIVE SumSizes(_)
SumSizes(file_list) ==
    IF file_list = <<>> THEN 0 ELSE Head(file_list) + SumSizes(Tail(file_list))

FileKey(i) == "key" \o ToString(i)
\* file_info.key.strip_prefix("{accession}/")
RelativePath(i) == "rel" \o ToString(i)

\* ------------------------------------------------------------- registry
\* DownloadProgress as start_download_task inserts it
InitialProgress(task_id) ==
    [task_id |-> task_id, status |-> "starting", progress |-> Pct(0, 1),
     total_size |-> 0, downloaded_size |-> 0, speed |-> 0,
     current_file |-> None, total_files |-> None, completed_files |-> None,
     error_message |-> None, started_at |-> Some(Now), completed_at |-> None]

\* downloads.insert(task_id, DownloadProgress {..})
Inserted(d, task_id) == [d EXCEPT ![task_id] = InitialProgress(task_id)]

\* Collecting as it would be with entry(task_id).or_insert_with(..): an
\* absent entry is created again
CollectingUpsert(d, task_id) ==
    [d EXCEPT ![task_id] =
        [(IF d[task_id] = NoEntry THEN InitialProgress(task_id) ELSE d[task_id])
            EXCEPT !.status = "collecting"]]

\* progress.status = "collecting", under if let Some(progress) = get_mut(..)
Collecting(d, task_id) ==
    IF d[task_id] = NoEntry THEN d
    ELSE [d EXCEPT ![task_id].status = "collecting"]

\* download_openneuro_dataset: progress.total_size = total_size
LocalTotal(d, task_id, total_size) ==
    IF d[task_id] = NoEntry THEN d
    ELSE [d EXCEPT ![task_id].total_size = total_size]

\* upload_openneuro_to_s3: total_files, total_size and status "collecting"
S3Total(d, task_id, total_files, total_size) ==
    IF d[task_id] = NoEntry THEN d
    ELSE [d EXCEPT ![task_id].total_files = Some(total_files),
                   ![task_id].total_size = total_size,
                   ![task_id].status = "collecting"]

\* download_openneuro_dataset: progress.current_file = Some(key)
CurrentFile(d, task_id, key) ==
    IF d[task_id] = NoEntry THEN d
    ELSE [d EXCEPT ![task_id].current_file = Some(key)]

\* LocalProgress as it would be if the update were written to every entry
\* of the registry
LocalProgressEveryEntry(d, task_id, downloaded_bytes, total_size) ==
    [id \in DOMAIN d |->
        IF d[id] = NoEntry THEN d[id]
        ELSE [d[id] EXCEPT !.progress = LocalPercent(downloaded_bytes, total_size),
                           !.downloaded_size = downloaded_bytes]]

\* download_openneuro_dataset, after an entry: progress and downloaded_size
LocalProgress(d, task_id, downloaded_bytes, total_size) ==
    IF d[task_id] = NoEntry THEN d
    ELSE [d EXCEPT ![task_id].progress = LocalPercent(downloaded_bytes, total_size),
                   ![task_id].downloaded_size = downloaded_bytes]

\* upload_openneuro_to_s3, after an entry
S3Progress(d, task_id, uploaded_size, total_size, uploaded_files, relative_path) ==
    IF d[task_id] = NoEntry THEN d
    ELSE [d EXCEPT ![task_id].progress = S3Percent(uploaded_size, total_size),
                   ![task_id].downloaded_size = uploaded_size,
                   ![task_id].completed_files = Some(uploaded_files),
                   ![task_id].current_file = Some(relative_path)]

\* download_openneuro_dataset: "Mark as completed"
LocalCompleted(d, task_id, nfiles) ==
    IF d[task_id] = NoEntry THEN d
    ELSE [d EXCEPT ![task_id].status = "completed",
                   ![task_id].progress = Pct(100, 1),
                   ![task_id].completed_at = Some(Now),
                   ![task_id].current_file = Some("Completed - files " \o ToString(nfiles))]

\* S3Completed without the completion timestamp
S3CompletedNoTimestamp(d, task_id) ==
    IF d[task_id] = NoEntry THEN d
    ELSE [d EXCEPT ![task_id].status = "completed",
                   ![task_id].progress = Pct(100, 1)]

\* upload_openneuro_to_s3: "Mark as completed"
S3Completed(d, task_id) ==
    IF d[task_id] = NoEntry THEN d
    ELSE [d EXCEPT ![task_id].status = "completed",
                   ![task_id].progress = Pct(100, 1),
                   ![task_id].completed_at = Some(Now)]

\* Failed without the completion timestamp
FailedNoTimestamp(d, task_id, e) ==
    IF d[task_id] = NoEntry THEN d
    ELSE [d EXCEPT ![task_id].status = "failed",
                   ![task_id].error_message = Some(e)]

\* the spawned future's "Update status to failed"
Failed(d, task_id, e) ==
    IF d[task_id] = NoEntry THEN d
    ELSE [d EXCEPT ![task_id].status = "failed",
                   ![task_id].error_message = Some(e),
                   ![task_id].completed_at = Some(Now)]

\* Cancelled as it would be if cancelling also recorded a message
CancelledWithMessage(d, task_id) ==
    IF d[task_id] = NoEntry THEN d
    ELSE [d EXCEPT ![task_id].status = "cancelled",
                   ![task_id].error_message = Some("Cancelled by user"),
                   ![task_id].completed_at = Some(Now)]

\* Cancelled as it would be if a completed task could not be cancelled
CancelledUnlessCompleted(d, task_id) ==
    IF d[task_id] = NoEntry \/ d[task_id].status = "completed" THEN d
    ELSE [d EXCEPT ![task_id].status = "cancelled",
                   ![task_id].completed_at = Some(Now)]

\* cancel_download_task
Cancelled(d, task_id) ==
    IF d[task_id] = NoEntry THEN d
    ELSE [d EXCEPT ![task_id].status = "cancelled",
                   ![task_id].completed_at = Some(Now)]

\* cleanup_download_task: downloads.remove(&task_id)
Removed(d, task_id) == [d EXCEPT ![task_id] = NoEntry]

\* Result<String, String> of a command
Ok(value) == [ok |-> TRUE, value |-> value]
Err(e) == [ok |-> FALSE, value |-> e]

StartReply(d, task_id) == Ok("Download started in background")
CancelReply(d, task_id) == Ok("Download cancelled")
\* CleanupReply as it would be if removing an absent entry were an error
CleanupReplyStrict(d, task_id) ==
    IF d[task_id] = NoEntry THEN Err("Task not found") ELSE Ok("Download task cleaned up")

CleanupReply(d, task_id) == Ok("Download task cleaned up")
\* ProgressReply as it would be with .cloned().or_else(..): an absent id
\* answered with a fresh snapshot
ProgressReplyOrDefault(d, task_id) ==
    Ok(IF d[task_id] = NoEntry THEN Some(InitialProgress(task_id)) ELSE Some(d[task_id]))

\* downloads.get(&task_id).cloned()
ProgressReply(d, task_id) == Ok(IF d[task_id] = NoEntry THEN None ELSE Some(d[task_id]))
\* downloads.values().cloned().collect()
AllProgressReply(d) == Ok({d[id] : id \in {i \in TaskIds : d[i] # NoEntry}})

\* -------------------------------------------------------------- workers
NoWorker == [pc |-> "unspawned"]

\* The locals of one spawned future: pc is the place it has reached,
\* file_list the manifest, index the entry it is at, bytes the running
\* downloaded_bytes / uploaded_size, err the Err perform_download returned.
Worker(task_id, task_data, pc, file_list, index, bytes, err) ==
    [task_id |-> task_id, task_data |-> task_data, pc |-> pc,
     file_list |-> file_list, index |-> index, bytes |-> bytes, err |-> err]

\* number of futures start_download_task has spawned
Spawned == Cardinality({w \in Workers : workers[w] # NoWorker})

\* task_data once the future no longer holds it
Dropped == [dropped |-> TRUE]

At(w, pc) == workers[w] # NoWorker /\ workers[w].pc = pc

IsLocal(w) == workers[w].task_data.storageType = "local"

\* the future moves on to another place, locals unchanged
Goto(w, pc) == workers' = [workers EXCEPT ![w].pc = pc]

\* Return as it would be if the error were only noted and the loop went on
\* with the same entry
ReturnAndRetry(w, e) ==
    workers' = [workers EXCEPT ![w].err = Some(e)]

\* perform_download returns Err(e): the locals of the transfer are dropped
Return(w, e) ==
    workers' = [workers EXCEPT ![w] =
        Worker(@.task_id, Dropped, "failed", <<>>, 0, 0, Some(e))]

\* a panic unwinds the future; tokio drops it and nobody awaits the JoinHandle
Panic(w) ==
    workers' = [workers EXCEPT ![w] =
        Worker(@.task_id, Dropped, "panicked", <<>>, 0, 0, None)]

\* download_to_local_storage wraps the error of download_openneuro_dataset
Wrapped(w, e) == IF IsLocal(w) THEN "Download failed: " \o e ELSE e

Init ==
    /\ downloads = [id \in TaskIds |-> NoEntry]
    /\ workers = [w \in Workers |-> NoWorker]
    /\ probe = NoProbe
    /\ call = NoCall

\* ------------------------------------------------------------- commands
start_download_task(task_id, task_data) ==
    /\ Spawned < MaxWorkers
    /\ Spawned = 0 => task_id = FirstTaskId
    /\ downloads' = Inserted(downloads, task_id)
    /\ workers' = [workers EXCEPT ![Spawned + 1] =
                      Worker(task_id, task_data, "parse", <<>>, 0, 0, None)]
    /\ UNCHANGED <<probe, call>>

get_download_progress(task_id) ==
    /\ ProgressReply(downloads, task_id).ok
    /\ UNCHANGED <<downloads, workers, probe, call>>

get_all_download_progress ==
    /\ AllProgressReply(downloads).ok
    /\ UNCHANGED <<downloads, workers, probe, call>>

cancel_download_task(task_id) ==
    /\ downloads' = Cancelled(downloads, task_id)
    /\ UNCHANGED workers
    /\ UNCHANGED <<probe, call>>

cleanup_download_task(task_id) ==
    /\ downloads' = Removed(downloads, task_id)
    /\ UNCHANGED workers
    /\ UNCHANGED <<probe, call>>

\* ---------------------------------------------------- background worker
\* perform_download: "Parse task data"
ParseError(task_data) ==
    IF ~task_data.task THEN Some("No task data found")
    ELSE IF ~task_data.downloadPath THEN Some("No download path specified")
    ELSE IF task_data.storageType = "missing" THEN Some("No storage locations specified")
    ELSE IF task_data.storageType = "incompatible"
         THEN Some("No compatible storage location found (local or s3-compatible)")
    ELSE IF ~task_data.path THEN Some("No storage path specified")
    ELSE None

perform_download_parse(w) ==
    /\ At(w, "parse")
    /\ IF ParseError(workers[w].task_data) # None
       THEN Return(w, ParseError(workers[w].task_data)[1])
       ELSE Goto(w, "collecting")
    /\ UNCHANGED downloads
    /\ UNCHANGED <<probe, call>>

\* perform_download: "Update status to collecting"
perform_download_collecting(w) ==
    /\ At(w, "collecting")
    /\ downloads' = Collecting(downloads, workers[w].task_id)
    /\ Goto(w, "storage")
    /\ UNCHANGED <<probe, call>>

\* download_to_s3_storage: "Extract S3 configuration from storage location"
S3ConfigError(task_data) ==
    IF ~task_data.bucketName THEN Some("No bucket name in S3 storage location")
    ELSE IF ~task_data.endpoint THEN Some("No endpoint in S3 storage location")
    ELSE IF ~task_data.credentials THEN Some("No access key ID in S3 storage location")
    ELSE None

\* perform_download's match storage_type, down to the call of
\* download_openneuro_dataset / upload_openneuro_to_s3
perform_download_storage(w) ==
    /\ At(w, "storage")
    /\ LET task_data == workers[w].task_data
           config_error == IF IsLocal(w) THEN None ELSE S3ConfigError(task_data)
       IN \/ /\ IsLocal(w)      \* fs::create_dir_all(&dest_dir) fails
             /\ Return(w, "Failed to create directory")
          \/ IF config_error # None THEN Return(w, config_error[1])
             ELSE IF task_data.datasetProvider # "openneuro"
             THEN Return(w, "Only OpenNeuro datasets are currently supported")
             ELSE Goto(w, "list")
    /\ UNCHANGED downloads
    /\ UNCHANGED <<probe, call>>

\* download_openneuro_dataset / upload_openneuro_to_s3: list the dataset.
\* reqwest::Client::new() panics when the TLS backend cannot be initialised.
list_files(w) ==
    /\ At(w, "list")
    /\ \/ Panic(w)
       \/ Return(w, Wrapped(w, "Failed to list files: HTTP"))
       \/ \E file_list \in Manifests :
             IF file_list = <<>>      \* file_list.is_empty()
             THEN Return(w, Wrapped(w, "No files found for dataset"))
             ELSE workers' = [workers EXCEPT ![w].file_list = file_list,
                                             ![w].pc = "total"]
    /\ UNCHANGED downloads
    /\ UNCHANGED <<probe, call>>

\* "Update task with total size" / "Update progress tracking"
set_total_size(w) ==
    /\ At(w, "total")
    /\ LET task_id == workers[w].task_id
           file_list == workers[w].file_list
       IN downloads' = IF IsLocal(w)
                       THEN LocalTotal(downloads, task_id, SumSizes(file_list))
                       ELSE S3Total(downloads, task_id, Len(file_list), SumSizes(file_list))
    /\ workers' = [workers EXCEPT ![w].index = 1,
                                  ![w].pc = IF IsLocal(w) THEN "current" ELSE "transfer"]
    /\ UNCHANGED <<probe, call>>

\* download_openneuro_dataset: "Update current file"
set_current_file(w) ==
    /\ At(w, "current")
    /\ downloads' = CurrentFile(downloads, workers[w].task_id, FileKey(workers[w].index))
    /\ Goto(w, "transfer")
    /\ UNCHANGED <<probe, call>>

\* the bytes download_single_file counts for an entry of a declared size:
\* the provider may send more than the listing announced
Received(size) == {size, size + 1}

\* download_openneuro_dataset: create the parent directory, download_single_file
download_single_file(w) ==
    /\ At(w, "transfer") /\ IsLocal(w)
    /\ \/ Panic(w)
       \/ Return(w, Wrapped(w, "Failed to download: HTTP error"))
       \/ \E file_size \in Received(workers[w].file_list[workers[w].index]) :
             workers' = [workers EXCEPT ![w].bytes = @ + file_size,
                                        ![w].pc = "progress"]
    /\ UNCHANGED downloads
    /\ UNCHANGED <<probe, call>>

\* upload_openneuro_to_s3: read the entry, then upload_to_s3_compatible
upload_to_s3_compatible(w) ==
    /\ At(w, "transfer") /\ ~IsLocal(w)
    /\ \/ Return(w, "Failed to download file: HTTP")
       \/ IF ~workers[w].task_data.validUrl
          THEN Return(w, "Failed to upload: Invalid URL")
          ELSE \/ Panic(w)
               \/ Return(w, "Failed to upload: Upload failed with status")
               \/ workers' = [workers EXCEPT
                                 ![w].bytes = @ + workers[w].file_list[workers[w].index],
                                 ![w].pc = "progress"]
    /\ UNCHANGED downloads
    /\ UNCHANGED <<probe, call>>

\* The "download_progress" event upload_openneuro_to_s3 hands to
\* app_handle.emit after an entry; download_openneuro_dataset only prints.
ProgressEvent(w) ==
    IF IsLocal(w) THEN None
    ELSE LET total_size == SumSizes(workers[w].file_list)
         IN Some([taskId |-> workers[w].task_id,
                  progress |-> S3Percent(workers[w].bytes, total_size),
                  uploadedSize |-> workers[w].bytes,
                  totalSize |-> total_size,
                  currentFile |-> RelativePath(workers[w].index),
                  completedFiles |-> workers[w].index,
                  totalFiles |-> Len(workers[w].file_list),
                  status |-> "uploading"])

\* The completion event: "download-completed" with the entry, emitted by
\* download_openneuro_dataset only when the entry is there, and
\* "download_completed" emitted by upload_openneuro_to_s3 in every case.
CompletionEvent(w) ==
    LET task_id == workers[w].task_id
        file_list == workers[w].file_list
    IN IF IsLocal(w)
       THEN IF downloads[task_id] = NoEntry THEN None
            ELSE Some(LocalCompleted(downloads, task_id, Len(file_list))[task_id])
       ELSE Some([taskId |-> task_id, status |-> "completed",
                  totalFiles |-> Len(file_list), totalSize |-> SumSizes(file_list)])

\* The event a worker emits while it holds the registry lock: the
\* "download-completed" of download_openneuro_dataset is emitted inside the
\* block that locks the registry, under `if let Some(progress)`; every other
\* emit comes after its block has ended.
EmittedUnderLock(w) ==
    IF workers[w].pc = "completed" /\ IsLocal(w) THEN CompletionEvent(w) ELSE None

\* EmitError as it would be if the Result of emit were passed on with `?`
EmitErrorPropagated(emit_ok) ==
    IF emit_ok THEN None ELSE Some("Failed to emit event")

\* The error a worker returns because of the Result of app_handle.emit:
\* `let _ = ..` drops the Result and `if let Err(e) = ..` only prints it.
EmitError(emit_ok) == None

\* "Update progress" after an entry and "Emit progress event", then the next
\* entry or the end of the loop
update_progress(w) ==
    /\ At(w, "progress")
    /\ \E emit_ok \in BOOLEAN :
          LET task_id == workers[w].task_id
              index == workers[w].index
              total_size == SumSizes(workers[w].file_list)
              emit_error == IF ProgressEvent(w) = None THEN None ELSE EmitError(emit_ok)
          IN /\ downloads' =
                   IF IsLocal(w)
                   THEN LocalProgress(downloads, task_id, workers[w].bytes, total_size)
                   ELSE S3Progress(downloads, task_id, workers[w].bytes, total_size,
                                   index, RelativePath(index))
             /\ IF emit_error # None THEN Return(w, emit_error[1])
                ELSE workers' =
                   IF index < Len(workers[w].file_list)
                   THEN [workers EXCEPT ![w].index = index + 1,
                                        ![w].pc = IF IsLocal(w) THEN "current" ELSE "transfer"]
                   ELSE [workers EXCEPT ![w].pc = "completed"]
    /\ UNCHANGED <<probe, call>>

\* "Mark as completed" and "Emit completion event"; perform_download returns
\* Ok(()) and the future ends
mark_completed(w) ==
    /\ At(w, "completed")
    /\ \E emit_ok \in BOOLEAN :
          LET emit_error == IF CompletionEvent(w) = None THEN None ELSE EmitError(emit_ok)
          IN /\ downloads' =
                   IF IsLocal(w)
                   THEN LocalCompleted(downloads, workers[w].task_id, Len(workers[w].file_list))
                   ELSE S3Completed(downloads, workers[w].task_id)
             /\ IF emit_error # None THEN Return(w, emit_error[1])
                ELSE workers' = [workers EXCEPT ![w] =
                        Worker(@.task_id, Dropped, "done", <<>>, 0, 0, None)]
    /\ UNCHANGED <<probe, call>>

\* start_download_task's spawned future: if let Err(e) = perform_download(..)
failure_handler(w) ==
    /\ At(w, "failed")
    /\ downloads' = Failed(downloads, workers[w].task_id, workers[w].err[1])
    /\ workers' = [workers EXCEPT ![w] =
                      Worker(@.task_id, Dropped, "done", <<>>, 0, 0, None)]
    /\ UNCHANGED <<probe, call>>

WorkerStep(w) ==
    \/ perform_download_parse(w)
    \/ perform_download_collecting(w)
    \/ perform_download_storage(w)
    \/ list_files(w)
    \/ set_total_size(w)
    \/ set_current_file(w)
    \/ download_single_file(w)
    \/ upload_to_s3_compatible(w)
    \/ update_progress(w)
    \/ mark_completed(w)
    \/ failure_handler(w)

Next ==
    \/ \E task_id \in TaskIds, task_data \in TaskDatas : start_download_task(task_id, task_data)
    \/ \E task_id \in TaskIds : get_download_progress(task_id)
    \/ get_all_download_progress
    \/ \E task_id \in TaskIds : cancel_download_task(task_id)
    \/ \E task_id \in TaskIds : cleanup_download_task(task_id)
    \/ \E w \in Workers : WorkerStep(w)

Spec == Init /\ [][Next]_vars

\* -------------------------------------------------- test_s3_connection
\* A string whose characters matter (a host, a header value) is the sequence
\* of its pieces, a space being a piece of its own.
\* S3ConnectionConfig.endpoint, by the parts of its text: scheme is the text
\* before ':' ("" when there is none), slashes tells whether "//" follows it.
Endpoint(scheme, slashes, host, port) ==
    [scheme |-> scheme, slashes |-> slashes, host |-> host, port |-> port]

PlainHost == Endpoint("", FALSE, <<"minio.local">>, None)              \* minio.local
PlainHostPort == Endpoint("", FALSE, <<"minio.local">>, Some(9000))    \* minio.local:9000
HttpsHost == Endpoint("https", TRUE, <<"s3.example.com">>, None)       \* https://s3.example.com
HttpHostPort == Endpoint("http", TRUE, <<"localhost">>, Some(9000))    \* http://localhost:9000
SpaceInHost == Endpoint("", FALSE, <<"minio", " ", "local">>, None)    \* minio local
OpaqueScheme == Endpoint("httpx", FALSE, <<"minio.local">>, None)      \* httpx:minio.local
EmptyEndpoint == Endpoint("", FALSE, <<>>, None)                       \* the empty string
HttpsDefaultPort == Endpoint("https", TRUE, <<"s3.example.com">>, Some(443))  \* https://s3.example.com:443

Endpoints ==
    {PlainHost, PlainHostPort, HttpsHost, HttpHostPort, SpaceInHost, OpaqueScheme,
     EmptyEndpoint, HttpsDefaultPort}

S3ConnectionConfig(bucket_name, endpoint, region, access_key_id, secret_access_key) ==
    [bucket_name |-> bucket_name, endpoint |-> endpoint, region |-> region,
     access_key_id |-> access_key_id, secret_access_key |-> secret_access_key]

\* the configs a caller tests
Configs ==
    {S3ConnectionConfig(<<"my-bucket">>, endpoint, region, "AKID", "SECRET") :
        endpoint \in Endpoints, region \in {None, Some("eu-west-1")}}

\* config.endpoint.starts_with("http")
StartsWithHttp(endpoint) == endpoint.scheme \in {"http", "https", "httpx"}

\* format!("{}/{}", endpoint, bucket_name) or format!("https://{}/{}", ..):
\* path is the text after the authority, without its leading '/'
BucketUrl(endpoint, bucket_name) ==
    IF StartsWithHttp(endpoint)
    THEN [scheme |-> endpoint.scheme, slashes |-> endpoint.slashes,
          host |-> endpoint.host, port |-> endpoint.port, path |-> bucket_name]
    ELSE [scheme |-> "https", slashes |-> TRUE,
          host |-> endpoint.host, port |-> endpoint.port, path |-> bucket_name]

\* the code points the url crate refuses in the host of an http(s) URL
ForbiddenHostCodePoints == {" ", "#", "<", ">", "[", "]", "^", "|"}

\* the port a scheme stands for: Url::parse drops it, so Url::port() is None
DefaultPort(scheme) ==
    IF scheme = "https" THEN Some(443)
    ELSE IF scheme = "http" THEN Some(80)
    ELSE None

\* Url::parse: in an http(s) URL the slashes after the scheme are skipped and
\* the host is the text up to the next '/', so with an empty endpoint the
\* bucket name is taken as the host; a URL of another scheme without "//"
\* has an opaque path and no host.
UrlParse(url) ==
    IF url.scheme \in {"http", "https"}
    THEN LET host == IF url.host = <<>> THEN url.path ELSE url.host
             path == IF url.host = <<>> THEN <<>> ELSE url.path
         IN IF host = <<>> THEN Err("empty host")
            ELSE IF \E i \in 1..Len(host) : host[i] \in ForbiddenHostCodePoints
            THEN Err("invalid domain character")
            ELSE Ok([host |-> Some(host),
                     port |-> IF url.port = DefaultPort(url.scheme) THEN None ELSE url.port,
                     path |-> path])
    ELSE IF url.slashes
    THEN Ok([host |-> Some(url.host), port |-> url.port, path |-> url.path])
    ELSE Ok([host |-> None, port |-> None, path |-> url.host \o <<"/">> \o url.path])

\* str::trim
RECURSIVE TrimStart(_)
TrimStart(value) ==
    IF value # <<>> /\ Head(value) = " " THEN TrimStart(Tail(value)) ELSE value

RECURSIVE TrimEnd(_)
TrimEnd(value) ==
    IF value # <<>> /\ value[Len(value)] = " "
    THEN TrimEnd(SubSeq(value, 1, Len(value) - 1))
    ELSE value

\* Trim as it would be if only leading whitespace were removed
TrimStartOnly(value) == TrimStart(value)

\* str::trim
Trim(value) == TrimEnd(TrimStart(value))

\* str::to_lowercase, on the header names that occur here
ToLowercase(key) ==
    IF key = "Host" THEN "host"
    ELSE IF key = "X-Amz-Date" THEN "x-amz-date"
    ELSE IF key = "X-Amz-Content-Sha256" THEN "x-amz-content-sha256"
    ELSE key

\* the lower-case header names in the order sort_by_key(|(k, _)| k.to_lowercase())
\* puts them
HeaderOrder == <<"host", "x-amz-content-sha256", "x-amz-date">>

\* the headers test_s3_connection signs and sends
ProbeHeaders(host) ==
    [key \in {"host", "x-amz-date", "x-amz-content-sha256"} |->
        IF key = "host" THEN host
        ELSE IF key = "x-amz-date" THEN <<Now>>
        ELSE <<"UNSIGNED-PAYLOAD">>]

\* generate_aws_signature_v4 (s3_client.rs): SHA-256 and HMAC-SHA256 are kept
\* as the values they are computed from, so that two signatures are equal
\* exactly when their inputs are. hmac_sha256 takes a key of any length and
\* never fails. headers has no two keys that differ only in case.
generate_aws_signature_v4(method, url, headers, access_key, secret_key, region, timestamp) ==
    LET parsed_url == UrlParse(url)
    IN IF ~parsed_url.ok THEN Err("Invalid URL: " \o parsed_url.value)
       ELSE LET signed_headers ==
                    SelectSeq(HeaderOrder,
                              LAMBDA name : \E key \in DOMAIN headers : ToLowercase(key) = name)
                canonical_headers ==
                    [i \in 1..Len(signed_headers) |->
                        LET key == CHOOSE k \in DOMAIN headers : ToLowercase(k) = signed_headers[i]
                        IN <<signed_headers[i], Trim(headers[key])>>]
                canonical_request == <<method, parsed_url.value.path, "", canonical_headers,
                                       signed_headers, "UNSIGNED-PAYLOAD">>
                credential_scope == <<timestamp, region, "s3", "aws4_request">>
                string_to_sign == <<"AWS4-HMAC-SHA256", timestamp, credential_scope,
                                    canonical_request>>
                signing_key == <<"AWS4", secret_key, timestamp, region, "s3", "aws4_request">>
            IN Ok([Credential |-> <<access_key, credential_scope>>,
                   SignedHeaders |-> signed_headers,
                   Signature |-> <<signing_key, string_to_sign>>])

\* CanonicalHeadersSimple as it would be if the header names were signed as
\* they are written
CanonicalHeadersAsWritten(headers) ==
    LET sorted_headers ==
            SelectSeq(HeaderOrder,
                      LAMBDA name : \E key \in DOMAIN headers : ToLowercase(key) = name)
    IN [i \in 1..Len(sorted_headers) |->
           LET key == CHOOSE k \in DOMAIN headers : ToLowercase(k) = sorted_headers[i]
           IN <<key, Trim(headers[key])>>]

\* the canonical headers of generate_aws_signature_v4_simple (lib.rs):
\* "{key_lower}:{value.trim()}\n" for the headers sorted by lower-case key
CanonicalHeadersSimple(headers) ==
    LET sorted_headers ==
            SelectSeq(HeaderOrder,
                      LAMBDA name : \E key \in DOMAIN headers : ToLowercase(key) = name)
    IN [i \in 1..Len(sorted_headers) |->
           LET key == CHOOSE k \in DOMAIN headers : ToLowercase(k) = sorted_headers[i]
           IN <<ToLowercase(key), Trim(headers[key])>>]

\* generate_aws_signature_v4_simple (lib.rs), with the same reading of
\* SHA-256 and HMAC-SHA256
generate_aws_signature_v4_simple(method, url, headers, access_key, secret_key, region, timestamp, content_hash) ==
    LET parsed_url == UrlParse(url)
    IN IF ~parsed_url.ok THEN Err("Invalid URL: " \o parsed_url.value)
       ELSE LET canonical_uri == parsed_url.value.path
                canonical_query == ""
                canonical_headers == CanonicalHeadersSimple(headers)
                signed_headers == [i \in 1..Len(canonical_headers) |-> canonical_headers[i][1]]
                canonical_request == <<method, canonical_uri, canonical_query,
                                       canonical_headers, signed_headers, content_hash>>
                credential_scope == <<timestamp, region, "s3", "aws4_request">>
                string_to_sign == <<"AWS4-HMAC-SHA256", timestamp, credential_scope,
                                    canonical_request>>
                signing_key == <<"AWS4", secret_key, timestamp, region, "s3", "aws4_request">>
                signature == <<signing_key, string_to_sign>>
            IN Ok([Credential |-> <<access_key, credential_scope>>,
                   SignedHeaders |-> signed_headers,
                   Signature |-> signature])

\* what the network does with the HEAD request, and reqwest::Client::new()
\* panicking because the TLS backend cannot be initialised
Status(code) == [kind |-> "status", code |-> code]
SendError(kind) == [kind |-> kind, code |-> 0]
ClientPanic == [kind |-> "panic", code |-> 0]

Outcomes ==
    {Status(code) : code \in {200, 204, 301, 401, 403, 404, 412, 500}}
        \cup {SendError("connect"), SendError("timeout"), SendError("other"), ClientPanic}

S3ConnectionResult(success, message) == [success |-> success, message |-> message]

\* the match on request_builder.send().await
Classified(outcome) ==
    IF outcome.kind = "status"
    THEN IF outcome.code >= 200 /\ outcome.code <= 299      \* status.is_success()
         THEN S3ConnectionResult(TRUE, "Successfully connected to S3-compatible service!")
         ELSE IF outcome.code = 401
         THEN S3ConnectionResult(FALSE, "Authentication failed (401 Unauthorized). Please check your access key ID and secret access key.")
         ELSE IF outcome.code = 403
         THEN S3ConnectionResult(FALSE, "Access denied (403 Forbidden). The credentials are valid but do not have permission to access this bucket.")
         ELSE IF outcome.code = 404
         THEN S3ConnectionResult(FALSE, "Bucket not found (404). Please verify the bucket name and endpoint URL.")
         ELSE IF outcome.code = 412
         THEN S3ConnectionResult(FALSE, "Precondition Failed (412). This usually indicates the S3 service doesn't support the required headers or authentication method. Try checking if your endpoint URL is correct and if the service supports AWS Signature V4.")
         ELSE S3ConnectionResult(FALSE, "Connection failed with status: " \o ToString(outcome.code))
    ELSE IF outcome.kind = "connect"
    THEN S3ConnectionResult(FALSE, "Cannot reach the S3-compatible service endpoint. Check your endpoint URL and network connectivity.")
    ELSE IF outcome.kind = "timeout"
    THEN S3ConnectionResult(FALSE, "Connection timeout. The service may be slow or unreachable.")
    ELSE S3ConnectionResult(FALSE, "Connection failed: error sending request")

\* the command does not return: the panic unwinds it
Panicked == [ok |-> FALSE, panic |-> TRUE]

\* what test_s3_connection returns: Ok(S3ConnectionResult), or Err(String)
\* where `?` passes an error on
ConnectionReply(config, outcome) ==
    IF outcome = ClientPanic THEN Panicked
    ELSE LET region == IF config.region = None THEN "us-east-1" ELSE config.region[1]
             url == BucketUrl(config.endpoint, config.bucket_name)
             parsed_url == UrlParse(url)
         IN IF ~parsed_url.ok THEN Err("Invalid URL: " \o parsed_url.value)
            ELSE IF parsed_url.value.host = None THEN Err("No host in URL")
            ELSE LET authorization ==
                         generate_aws_signature_v4("HEAD", url,
                             ProbeHeaders(parsed_url.value.host[1]),
                             config.access_key_id, config.secret_access_key, region, Now)
                 IN IF ~authorization.ok THEN Err(authorization.value)
                    ELSE Ok(Classified(outcome))

\* the HEAD request test_s3_connection sends, None when it returns or
\* panics before it sends one
ConnectionRequest(config, outcome) ==
    LET region == IF config.region = None THEN "us-east-1" ELSE config.region[1]
        url == BucketUrl(config.endpoint, config.bucket_name)
        parsed_url == UrlParse(url)
    IN IF outcome = ClientPanic \/ ~ConnectionReply(config, outcome).ok THEN None
       ELSE LET headers == ProbeHeaders(parsed_url.value.host[1])
            IN Some([method |-> "HEAD", url |-> url, signed |-> headers,
                     sent |-> [host |-> headers["host"],
                               Authorization |->
                                   generate_aws_signature_v4("HEAD", url, headers,
                                       config.access_key_id, config.secret_access_key,
                                       region, Now).value]])

test_s3_connection(config, outcome) ==
    /\ probe' = [called |-> TRUE, config |-> config, outcome |-> outcome,
                 request |-> ConnectionRequest(config, outcome),
                 reply |-> ConnectionReply(config, outcome)]
    /\ UNCHANGED <<downloads, workers, call>>

\* the connection test on its own: it shares no state with the download manager
ProbeNext == \E config \in Configs, outcome \in Outcomes : test_s3_connection(config, outcome)

ProbeSpec == Init /\ [][ProbeNext]_vars

\* ---------------------------------------------- upload_to_s3_compatible
\* "Construct proper host header with port if present"
HostHeader(host, port) ==
    IF port # None THEN host \o <<":", ToString(port[1])>> ELSE host

\* the URL of the PUT request: format!("{}/{}/{}", base_url, bucket_name, key)
UploadUrl(endpoint, bucket_name, key) ==
    IF StartsWithHttp(endpoint)
    THEN [scheme |-> endpoint.scheme, slashes |-> endpoint.slashes, host |-> endpoint.host,
          port |-> endpoint.port, path |-> bucket_name \o <<"/">> \o key]
    ELSE [scheme |-> "https", slashes |-> TRUE, host |-> endpoint.host,
          port |-> endpoint.port, path |-> bucket_name \o <<"/">> \o key]

\* upload_to_s3_compatible up to the request it sends: Err where `?` passes
\* an error on, else the PUT request with the headers that are signed and
\* the headers that are sent
UploadRequest(endpoint, bucket_name, key, content_hash, access_key_id, secret_access_key, region) ==
    LET url == UploadUrl(endpoint, bucket_name, key)
        parsed_url == UrlParse(url)
    IN IF ~parsed_url.ok THEN Err("Invalid URL: " \o parsed_url.value)
       ELSE IF parsed_url.value.host = None THEN Err("No host in URL")
       ELSE LET host_header == HostHeader(parsed_url.value.host[1], parsed_url.value.port)
                headers == [name \in {"host", "x-amz-date", "x-amz-content-sha256"} |->
                               IF name = "host" THEN host_header
                               ELSE IF name = "x-amz-date" THEN <<Now>>
                               ELSE <<content_hash>>]
                authorization ==
                    generate_aws_signature_v4_simple("PUT", url, headers, access_key_id,
                        secret_access_key, region, Now, content_hash)
            IN IF ~authorization.ok THEN Err(authorization.value)
               ELSE Ok([method |-> "PUT", url |-> url, signed |-> headers,
                        sent |-> [Host |-> host_header,
                                  Authorization |-> authorization.value]])

\* the keys and content hashes of the objects uploaded here
UploadKeys == {<<"dest", "/", "rel1">>}
ContentHashes == {"hash1", "hash2"}

\* the part of upload_to_s3_compatible that builds the request
build_upload_request(endpoint, key, content_hash) ==
    /\ call' = [fn |-> "upload_to_s3_compatible",
                input |-> [endpoint |-> endpoint, key |-> key, content_hash |-> content_hash],
                result |-> UploadRequest(endpoint, <<"my-bucket">>, key, content_hash,
                                         "AKID", "SECRET", "us-east-1")]
    /\ UNCHANGED <<downloads, workers, probe>>

\* the two signed requests: the HEAD of the connection test and the PUT of an upload
RequestNext ==
    \/ \E config \in Configs, outcome \in Outcomes : test_s3_connection(config, outcome)
    \/ \E endpoint \in Endpoints, key \in UploadKeys, content_hash \in ContentHashes :
          build_upload_request(endpoint, key, content_hash)

RequestSpec == Init /\ [][RequestNext]_vars

\* ------------------------------------------------- the two signers, called
\* header values with and without whitespace around them
HeaderValues == {<<"a">>, <<" ", "a">>, <<"a", " ">>, <<"a", " ", "b">>, <<"b">>}

\* the header maps that are signed: no two keys of a map differ only in case
HeaderMaps ==
    UNION {[keys -> HeaderValues] : keys \in {{"host", "x-amz-date"}, {"Host"}}}

\* the URLs that are signed: one that parses and one that does not
SignedUrls == {BucketUrl(PlainHostPort, <<"my-bucket">>), BucketUrl(SpaceInHost, <<"my-bucket">>)}

Methods == {"HEAD", "PUT"}
Regions == {"us-east-1", "eu-west-1"}
PayloadHashes == {"UNSIGNED-PAYLOAD", "hash1"}

\* a call of the prober's signer
sign_v4(method, url, headers, region) ==
    /\ call' = [fn |-> "generate_aws_signature_v4",
                input |-> [method |-> method, url |-> url, headers |-> headers,
                           access_key |-> "AKID", secret_key |-> "SECRET",
                           region |-> region, timestamp |-> Now],
                result |-> generate_aws_signature_v4(method, url, headers, "AKID", "SECRET",
                                                     region, Now)]
    /\ UNCHANGED <<downloads, workers, probe>>

\* a call of the uploader's signer
sign_v4_simple(method, url, headers, region, content_hash) ==
    /\ call' = [fn |-> "generate_aws_signature_v4_simple",
                input |-> [method |-> method, url |-> url, headers |-> headers,
                           access_key |-> "AKID", secret_key |-> "SECRET",
                           region |-> region, timestamp |-> Now,
                           content_hash |-> content_hash],
                result |-> generate_aws_signature_v4_simple(method, url, headers, "AKID",
                               "SECRET", region, Now, content_hash)]
    /\ UNCHANGED <<downloads, workers, probe>>

SignerNext ==
    \/ \E method \in Methods, url \in SignedUrls, headers \in HeaderMaps, region \in Regions :
          sign_v4(method, url, headers, region)
    \/ \E method \in Methods, url \in SignedUrls, headers \in HeaderMaps, region \in Regions,
          content_hash \in PayloadHashes :
          sign_v4_simple(method, url, headers, region, content_hash)

SignerSpec == Init /\ [][SignerNext]_vars

\* ------------------------------------------------------- the file listing
\* The XML of a listing response is kept as the sequence of its elements,
\* each with its tag and its text as a sequence of characters; the regular
\* expression <Tag>([^<]+)</Tag> matches an element of that tag whose text
\* is not empty.
MaxElements == 4
MaxPages == 2

Element(tag, text) == [tag |-> tag, text |-> text]

Elements ==
    {Element("Key", <<"a">>), Element("Key", <<"b">>), Element("Key", <<"d", "/">>),
     Element("Key", <<>>), Element("Size", <<"1">>), Element("Size", <<"x">>)}

\* the listing responses of up to MaxElements elements
Listings == UNION {[1..n -> Elements] : n \in 0..MaxElements}

\* the value of a decimal digit, -1 for any other character
Digit(c) ==
    IF c = "0" THEN 0 ELSE IF c = "1" THEN 1 ELSE IF c = "2" THEN 2 ELSE IF c = "3" THEN 3
    ELSE IF c = "4" THEN 4 ELSE IF c = "5" THEN 5 ELSE IF c = "6" THEN 6
    ELSE IF c = "7" THEN 7 ELSE IF c = "8" THEN 8 ELSE IF c = "9" THEN 9 ELSE -1

\* str::parse::<u64>: None for a text that is not a number below 2^64
RECURSIVE ParseU64(_)
ParseU64(text) ==
    IF text = <<>> THEN None
    ELSE IF Digit(text[Len(text)]) < 0 THEN None
    ELSE IF Len(text) = 1 THEN Some(Digit(text[1]))
    ELSE LET front == ParseU64(SubSeq(text, 1, Len(text) - 1))
         IN IF front = None THEN None
            ELSE IF front[1] * 10 + Digit(text[Len(text)]) >= 2^64 THEN None
            ELSE Some(front[1] * 10 + Digit(text[Len(text)]))

\* the captures of one of the two regular expressions, in scan order
Captures(xml_content, tag) ==
    LET matches == SelectSeq(xml_content, LAMBDA e : e.tag = tag /\ e.text # <<>>)
    IN [i \in 1..Len(matches) |-> matches[i].text]

\* Keys as it would be if the directory keys were dropped before the pairing
KeysWithoutDirectories(xml_content) ==
    SelectSeq(Captures(xml_content, "Key"), LAMBDA key : key[Len(key)] # "/")

\* keys: the captures of <Key>([^<]+)</Key>
Keys(xml_content) == Captures(xml_content, "Key")

\* sizes: the captures of <Size>([^<]+)</Size>, each parse::<u64>().unwrap_or(0)
ListedSizes(xml_content) ==
    LET texts == Captures(xml_content, "Size")
    IN [i \in 1..Len(texts) |->
           IF ParseU64(texts[i]) = None THEN 0 ELSE ParseU64(texts[i])[1]]

\* parse_s3_listing: fails only when a regular expression does not compile,
\* which these two do
parse_s3_listing(xml_content) ==
    LET keys == Keys(xml_content)
        sizes == ListedSizes(xml_content)
        zipped == [i \in 1..(IF Len(keys) <= Len(sizes) THEN Len(keys) ELSE Len(sizes)) |->
                      [key |-> keys[i], size |-> sizes[i]]]
    IN Ok(SelectSeq(zipped, LAMBDA file : file.key[Len(file.key)] # "/"))

\* the pages the provider splits a listing into: the response to the one
\* request that is sent is the first of them
PageListings ==
    {<<Element("Key", <<"a">>), Element("Size", <<"1">>)>>,
     <<Element("Key", <<"b">>), Element("Size", <<"1">>)>>,
     <<Element("Key", <<"d", "/">>), Element("Size", <<"1">>)>>,
     <<Element("Key", <<"a">>), Element("Size", <<"x">>)>>,
     <<Element("Key", <<>>)>>,
     <<>>}

PagedListings == UNION {[1..n -> PageListings] : n \in 1..MaxPages}

\* the listing step of download_openneuro_dataset and upload_openneuro_to_s3:
\* one GET of ?list-type=2&prefix=<accession>/, then parse_s3_listing
ListedFiles(pages, success) ==
    IF ~success THEN Err("Failed to list files: HTTP")
    ELSE LET file_list == parse_s3_listing(pages[1])
         IN IF ~file_list.ok THEN file_list
            ELSE IF file_list.value = <<>> THEN Err("No files found for dataset")
            ELSE file_list

\* a call of parse_s3_listing
parse_listing(xml_content) ==
    /\ call' = [fn |-> "parse_s3_listing", input |-> xml_content,
                result |-> parse_s3_listing(xml_content)]
    /\ UNCHANGED <<downloads, workers, probe>>

\* the listing step of a transfer, against a provider that has these pages
\* and answers with this status
list_dataset_files(pages, success) ==
    /\ call' = [fn |-> "list_dataset_files", input |-> pages, success |-> success,
                result |-> ListedFiles(pages, success)]
    /\ UNCHANGED <<downloads, workers, probe>>

ListingNext ==
    \/ \E xml_content \in Listings : parse_listing(xml_content)
    \/ \E pages \in PagedListings, success \in BOOLEAN : list_dataset_files(pages, success)

ListingSpec == Init /\ [][ListingNext]_vars

\* ------------------------------------------- extract_openneuro_accession
\* A path is a sequence of characters.
MaxPathLen == 5

PathChars == {"d", "s", "1", "D"}
Paths == UNION {[1..n -> PathChars] : n \in 0..MaxPathLen}

\* \d, on the characters that occur here
IsDigit(c) == Digit(c) >= 0

\* re.is_match(path) for ^ds\d+$
IsAccession(path) ==
    /\ Len(path) >= 3
    /\ path[1] = "d" /\ path[2] = "s"
    /\ \A i \in 3..Len(path) : IsDigit(path[i])

\* str::to_lowercase, on the characters that occur here
PathToLowercase(path) == [i \in 1..Len(path) |-> IF path[i] = "D" THEN "d" ELSE path[i]]

\* FirstNumber as it would be if the group took one digit only
FirstDigit(path) ==
    LET starts == {p \in 1..(Len(path) - 2) :
                       path[p] = "d" /\ path[p + 1] = "s" /\ IsDigit(path[p + 2])}
    IN IF starts = {} THEN None
       ELSE LET p == CHOOSE q \in starts : \A r \in starts : q <= r
            IN Some(<<path[p + 2]>>)

\* re.captures(path) for ds(\d+): group 1 of the leftmost match, the
\* longest run of digits after its "ds"
FirstNumber(path) ==
    LET starts == {p \in 1..(Len(path) - 2) :
                       path[p] = "d" /\ path[p + 1] = "s" /\ IsDigit(path[p + 2])}
    IN IF starts = {} THEN None
       ELSE LET p == CHOOSE q \in starts : \A r \in starts : q <= r
                ends == {e \in (p + 2)..Len(path) : \A i \in (p + 2)..e : IsDigit(path[i])}
                e == CHOOSE q \in ends : \A r \in ends : r <= q
            IN Some(SubSeq(path, p + 2, e))

extract_openneuro_accession(path) ==
    IF IsAccession(path) THEN PathToLowercase(path)
    ELSE IF FirstNumber(path) # None THEN <<"d", "s">> \o FirstNumber(path)[1]
    ELSE path

\* a call of extract_openneuro_accession
extract_accession(path) ==
    /\ call' = [fn |-> "extract_openneuro_accession", input |-> path,
                result |-> extract_openneuro_accession(path)]
    /\ UNCHANGED <<downloads, workers, probe>>

AccessionNext == \E path \in Paths : extract_accession(path)

AccessionSpec == Init /\ [][AccessionNext]_vars

\* ================================================================ claims
Terminal == {"completed", "failed", "cancelled"}

Present(task_id) == downloads[task_id] # NoEntry

Spawn(w) == workers[w] # NoWorker

\* the workers of a task id, and those of them that can still take a step
WorkersOf(task_id) == {w \in Workers : Spawn(w) /\ workers[w].task_id = task_id}
Running(task_id) == {w \in WorkersOf(task_id) : workers[w].pc \notin {"done", "panicked"}}

\* some worker of the task id takes a step
EngineStep(task_id) == \E w \in WorkersOf(task_id) : WorkerStep(w)

\* the steps of a worker that take the registry lock
LockStep(w) ==
    \/ perform_download_collecting(w)
    \/ set_total_size(w)
    \/ set_current_file(w)
    \/ update_progress(w)
    \/ mark_completed(w)
    \/ failure_handler(w)

\* C1: once an entry's status is completed, failed or cancelled, no engine
\* step of that task id and no cancel call changes the status.
C1_TerminalAbsorbing ==
    [][\A id \in TaskIds :
          (/\ Present(id)
           /\ downloads[id].status \in Terminal
           /\ EngineStep(id) \/ cancel_download_task(id))
          => (downloads'[id] # NoEntry /\ downloads'[id].status = downloads[id].status)]_vars

\* C2: start_download_task with a task id that is in the registry returns an
\* error, leaves the entry as it is and spawns no worker.
C2_DuplicateRejected ==
    [][\A id \in TaskIds, task_data \in TaskDatas :
          (Present(id) /\ start_download_task(id, task_data))
          => (/\ ~StartReply(downloads, id).ok
              /\ downloads' = downloads
              /\ workers' = workers)]_vars

\* C3: the failure handler of a worker whose perform_download returned Err
\* holds a non-empty message and leaves the entry, when there is one, with
\* status failed, that message as error_message and completed_at set.
C3_FailureRecorded ==
    [][\A w \in Workers :
          failure_handler(w)
          => /\ workers[w].err # None
             /\ Len(workers[w].err[1]) > 0
             /\ Present(workers[w].task_id)
                => LET progress == downloads'[workers[w].task_id]
                   IN /\ progress # NoEntry
                      /\ progress.status = "failed"
                      /\ progress.error_message = workers[w].err
                      /\ progress.completed_at # None]_vars

\* C3 witness: a worker has ended after an error and its entry records it
C3_Witness ==
    \E w \in Workers :
        /\ At(w, "done")
        /\ Present(workers[w].task_id)
        /\ downloads[workers[w].task_id].status = "failed"
        /\ downloads[workers[w].task_id].error_message = Some("Download failed: Failed to download: HTTP error")

\* C4: a task whose workers have all stopped, by returning or by a panic, and
\* whose entry is still in the registry has a terminal status.
C4_StoppedIsTerminal ==
    \A id \in TaskIds :
        (Present(id) /\ WorkersOf(id) # {} /\ Running(id) = {})
        => downloads[id].status \in Terminal

\* C5: while an entry stays in the registry and is not terminal, no step
\* lowers its downloaded_size.
C5_TransferredMonotone ==
    [][\A id \in TaskIds :
          (Present(id) /\ downloads[id].status \notin Terminal /\ downloads'[id] # NoEntry)
          => downloads'[id].downloaded_size >= downloads[id].downloaded_size]_vars

\* C6: the total_size of an entry is written once, by the step that sets it to
\* the sum of the manifest sizes, and no step changes it afterwards.
C6_TotalSizeOnce ==
    [][\A id \in TaskIds :
          (Present(id) /\ downloads'[id] # NoEntry
             /\ downloads'[id].total_size # downloads[id].total_size)
          => /\ downloads[id].total_size = 0
             /\ \E w \in WorkersOf(id) :
                   /\ set_total_size(w)
                   /\ downloads'[id].total_size = SumSizes(workers[w].file_list)]_vars

\* C7: the progress of every entry lies between 0 and 100.
C7_PercentInRange ==
    \A id \in TaskIds :
        Present(id) => /\ PctLeq(Pct(0, 1), downloads[id].progress)
                       /\ PctLeq(downloads[id].progress, Pct(100, 1))

\* C8: for a task with a single worker, no progress update after an entry and
\* no completion step lowers the entry's progress.
C8_PercentMonotone ==
    [][\A w \in Workers :
          (/\ Spawn(w)
           /\ WorkersOf(workers[w].task_id) = {w}
           /\ Present(workers[w].task_id)
           /\ update_progress(w) \/ mark_completed(w))
          => PctLeq(downloads[workers[w].task_id].progress,
                    downloads'[workers[w].task_id].progress)]_vars

\* C9: a worker step that takes the registry lock while the entry of its task
\* id is absent leaves the registry as it is (the entry stays absent) and does
\* not make the worker fail.
C9_AbsentUpdateNoOp ==
    [][\A w \in Workers :
          (Spawn(w) /\ ~Present(workers[w].task_id) /\ LockStep(w))
          => /\ downloads' = downloads
             /\ workers'[w].pc \notin {"failed", "panicked"}]_vars

\* C9 witness: a worker has run to its end and the entry of its task id,
\* which only its own submission created, is not in the registry
C9_Witness ==
    \E w \in Workers :
        /\ At(w, "done")
        /\ WorkersOf(workers[w].task_id) = {w}
        /\ ~Present(workers[w].task_id)

\* C10: removing a task id twice gives the registry that removing it once
\* gives, removing an absent id changes nothing, and cleanup returns Ok both
\* times.
C10_CleanupIdempotent ==
    \A id \in TaskIds :
        /\ Removed(Removed(downloads, id), id) = Removed(downloads, id)
        /\ ~Present(id) => Removed(downloads, id) = downloads
        /\ CleanupReply(downloads, id).ok
        /\ CleanupReply(Removed(downloads, id), id).ok

\* C10 witness: an entry that a submission created has been removed while
\* another entry is still in the registry
C10_Witness ==
    \E w \in Workers, other \in TaskIds :
        /\ Spawn(w)
        /\ ~Present(workers[w].task_id)
        /\ other # workers[w].task_id
        /\ Present(other)

\* the error a task description makes perform_download or
\* download_to_s3_storage return before any request is made
ConfigError(task_data) ==
    IF ParseError(task_data) # None THEN ParseError(task_data)
    ELSE IF task_data.storageType = "s3-compatible" THEN S3ConfigError(task_data)
    ELSE None

\* C11: start_download_task with a task description that has a missing or
\* invalid required field returns an error and starts no background work: it
\* spawns no worker and leaves the registry as it is.
C11_ConfigErrorSynchronous ==
    [][\A id \in TaskIds, task_data \in TaskDatas :
          (ConfigError(task_data) # None /\ start_download_task(id, task_data))
          => (/\ ~StartReply(downloads, id).ok
              /\ downloads' = downloads
              /\ workers' = workers)]_vars

\* C12: for a local and for an S3 destination alike, the step that follows a
\* transferred entry leaves the registry entry, when there is one, with the
\* worker's byte count, the number of entries transferred so far, a current
\* file and the recomputed percent, and emits one progress event that carries
\* the task id, those fields and a status tag.
C12_ProgressAfterEntry ==
    [][\A w \in Workers :
          update_progress(w)
          => LET task_id == workers[w].task_id
                 total_size == SumSizes(workers[w].file_list)
                 event == ProgressEvent(w)
             IN /\ Present(task_id)
                   => LET progress == downloads'[task_id]
                      IN /\ progress.downloaded_size = workers[w].bytes
                         /\ progress.completed_files = Some(workers[w].index)
                         /\ progress.current_file # None
                         /\ progress.progress =
                               IF IsLocal(w) THEN LocalPercent(workers[w].bytes, total_size)
                               ELSE S3Percent(workers[w].bytes, total_size)
                /\ event # None
                /\ event[1].taskId = task_id
                /\ event[1].completedFiles = workers[w].index
                /\ event[1].uploadedSize = workers[w].bytes
                /\ event[1].status = "uploading"]_vars

\* the steps of a worker that ask the provider or the destination for something
RequestStep(w) ==
    \/ list_files(w)
    \/ download_single_file(w)
    \/ upload_to_s3_compatible(w)

\* C13: once a worker holds the error of a failed entry it makes no request
\* any more, for the failed entry or for a remaining one, and takes no
\* progress step, so it emits no progress event: its only step is the failure
\* handler, after which it takes no step at all.
C13_NoWorkAfterFailure ==
    [][\A w \in Workers :
          /\ (Spawn(w) /\ workers[w].err # None)
             => /\ ~RequestStep(w)
                /\ ~update_progress(w)
                /\ workers'[w] # workers[w] => failure_handler(w)
          /\ At(w, "done") => workers'[w] = workers[w]]_vars

\* C13 witness: the single worker of an S3 task has failed on the first of
\* two entries, the second one still to be transferred
C13_Witness ==
    \E w \in Workers :
        /\ At(w, "failed")
        /\ workers[w].err = Some("Failed to upload: Upload failed with status")
        /\ WorkersOf(workers[w].task_id) = {w}
        /\ Present(workers[w].task_id)
        /\ downloads[workers[w].task_id].total_files = Some(2)
        /\ downloads[workers[w].task_id].completed_files = None

\* a worker whose request for the entry it is at has been sent and has not
\* come back yet
InFlight(w) == At(w, "transfer")

\* C14: at no time are two entries of the same task id in flight: of the
\* workers of one task id at most one is waiting for a transfer to finish,
\* whatever the submit calls were.
C14_OneEntryInFlight ==
    \A id \in TaskIds :
        Cardinality({w \in WorkersOf(id) : InFlight(w)}) <= 1

\* C15, as claimed: cancel_download_task on a present task changes the status
\* of its entry to cancelled and nothing else in the registry.
C15_CancelStatusOnly ==
    [][\A id \in TaskIds :
          (Present(id) /\ cancel_download_task(id))
          => downloads' = [downloads EXCEPT ![id].status = "cancelled"]]_vars

\* C15, amended: cancel_download_task on a present task sets the status of
\* its entry to cancelled and its completed_at to the time of the call; every
\* other field of the entry and every other entry stay as they are, and so do
\* the workers.
C15_CancelStatusAndTimestamp ==
    [][\A id \in TaskIds :
          (Present(id) /\ cancel_download_task(id))
          => /\ downloads' = [downloads EXCEPT ![id].status = "cancelled",
                                               ![id].completed_at = Some(Now)]
             /\ workers' = workers]_vars

\* C15 witness: a cancelled entry that still shows the bytes, the total and the
\* current file its worker wrote before the call, next to another entry
C15_Witness ==
    \E id \in TaskIds, other \in TaskIds :
        /\ other # id
        /\ Present(id) /\ Present(other)
        /\ downloads[id].status = "cancelled"
        /\ downloads[id].completed_at = Some(Now)
        /\ downloads[id].error_message = None
        /\ downloads[id].downloaded_size > 0
        /\ downloads[id].current_file # None
        /\ downloads[other].status = "collecting"

\* C16: cancel_download_task treats the three terminal statuses alike: the
\* registry it leaves for an entry that is completed, failed or cancelled has
\* that entry with the status cancelled, and the call returns Ok.
C16_CancelTerminalUniform ==
    \A id \in TaskIds :
        (Present(id) /\ downloads[id].status \in Terminal)
        => /\ Cancelled(downloads, id)[id] # NoEntry
           /\ Cancelled(downloads, id)[id].status = "cancelled"
           /\ CancelReply(downloads, id).ok

\* C16 witness: one entry was cancelled after its local download had
\* completed, another after its task had failed
C16_Witness ==
    \E id \in TaskIds, other \in TaskIds :
        /\ Present(id) /\ Present(other)
        /\ downloads[id].status = "cancelled"
        /\ downloads[id].progress = Pct(100, 1)
        /\ downloads[id].current_file = Some("Completed - files 1")
        /\ downloads[other].status = "cancelled"
        /\ downloads[other].error_message = Some("No task data found")

\* how far along starting -> collecting -> {completed, failed, cancelled} a
\* status is; the code has one status, collecting, for listing and transferring
Rank(status) ==
    IF status = "starting" THEN 0
    ELSE IF status = "collecting" THEN 1
    ELSE 2

\* C17: the status of an entry only moves forward: no step takes an entry
\* that stays in the registry to a status that comes earlier in
\* starting -> collecting -> terminal than the one it has.
C17_StatusForward ==
    [][\A id \in TaskIds :
          (Present(id) /\ downloads'[id] # NoEntry)
          => Rank(downloads'[id].status) >= Rank(downloads[id].status)]_vars

\* C18: right after start_download_task of an id that is not in the registry,
\* get_download_progress of that id returns a snapshot with status starting,
\* downloaded_size 0, total_size 0, progress 0, no error message and no
\* completion time; and get_download_progress of an id that no call has
\* submitted returns None.
C18_SnapshotAfterSubmit ==
    [][/\ \A id \in TaskIds :
             WorkersOf(id) = {} => ProgressReply(downloads, id) = Ok(None)
       /\ \A id \in TaskIds, task_data \in TaskDatas :
             (~Present(id) /\ start_download_task(id, task_data))
             => /\ StartReply(downloads, id).ok
                /\ ProgressReply(downloads', id).ok
                /\ ProgressReply(downloads', id).value # None
                /\ LET snapshot == ProgressReply(downloads', id).value[1]
                   IN /\ snapshot.task_id = id
                      /\ snapshot.status = "starting"
                      /\ snapshot.downloaded_size = 0
                      /\ snapshot.total_size = 0
                      /\ snapshot.progress = Pct(0, 1)
                      /\ snapshot.error_message = None
                      /\ snapshot.completed_at = None]_vars

\* C18 witness: an id has just been submitted, its worker has not taken a
\* step and its snapshot is the initial one, while the other id has never
\* been submitted
C18_Witness ==
    \E id \in TaskIds, other \in TaskIds, w \in Workers :
        /\ At(w, "parse")
        /\ WorkersOf(id) = {w}
        /\ ProgressReply(downloads, id) = Ok(Some(InitialProgress(id)))
        /\ WorkersOf(other) = {}
        /\ ProgressReply(downloads, other) = Ok(None)

\* C19: whether app_handle.emit returns Ok or Err makes no difference to the
\* worker or to the registry: for either result the progress step after an
\* entry and the completion step return no error, the progress step goes on
\* to the next entry or to the completion step, and the completion step
\* leaves the entry, when there is one, completed at 100 percent with the
\* fields the transfer left.
C19_EmitFailureIgnored ==
    [][\A w \in Workers :
          /\ update_progress(w)
             => /\ workers'[w].err = None
                /\ workers'[w].pc \in {"current", "transfer", "completed"}
                /\ workers'[w].pc = "completed" <=> workers[w].index = Len(workers[w].file_list)
          /\ mark_completed(w)
             => /\ workers'[w].err = None
                /\ workers'[w].pc = "done"
                /\ Present(workers[w].task_id)
                   => LET before == downloads[workers[w].task_id]
                          after == downloads'[workers[w].task_id]
                      IN /\ after # NoEntry
                         /\ after.status = "completed"
                         /\ after.progress = Pct(100, 1)
                         /\ after.completed_at # None
                         /\ after.downloaded_size = before.downloaded_size
                         /\ after.total_size = before.total_size
                         /\ after.completed_files = before.completed_files
                         /\ after.error_message = before.error_message]_vars

\* C19 witness: the single worker of an S3 task, which emits an event after
\* every entry and one at the end, has transferred a manifest of two entries
\* and ended, and the entry is completed
C19_Witness ==
    \E w \in Workers :
        /\ At(w, "done")
        /\ WorkersOf(workers[w].task_id) = {w}
        /\ Present(workers[w].task_id)
        /\ downloads[workers[w].task_id].status = "completed"
        /\ downloads[workers[w].task_id].total_files = Some(2)
        /\ downloads[workers[w].task_id].completed_files = Some(2)
        /\ downloads[workers[w].task_id].total_size = 2
        /\ downloads[workers[w].task_id].downloaded_size = 2

\* C20: test_s3_connection never raises: whatever the config and whatever
\* the network does with the request, a call that has its HTTP client
\* returns Ok with a (success, message) result.
C20_NeverRaises ==
    (probe.called /\ probe.outcome # ClientPanic)
    => /\ probe.reply.ok
       /\ probe.reply.value.success \in BOOLEAN
       /\ Len(probe.reply.value.message) > 0

\* C21: in the HEAD request of the connection test and in the PUT request of
\* an upload, the host header that is signed and the one that is sent are
\* host:port when the parsed URL has a port (one that is not the default of
\* its scheme), and the bare host when it has none.
C21_HostHeaderCarriesPort ==
    /\ (probe.called /\ probe.request # None)
       => LET request == probe.request[1]
              parsed_url == UrlParse(request.url).value
              expected == IF parsed_url.port # None
                          THEN parsed_url.host[1] \o <<":", ToString(parsed_url.port[1])>>
                          ELSE parsed_url.host[1]
          IN /\ request.signed["host"] = expected
             /\ request.sent.host = expected
    /\ (call.fn = "upload_to_s3_compatible" /\ call.result.ok)
       => LET request == call.result.value
              parsed_url == UrlParse(request.url).value
              expected == IF parsed_url.port # None
                          THEN parsed_url.host[1] \o <<":", ToString(parsed_url.port[1])>>
                          ELSE parsed_url.host[1]
          IN /\ request.signed["host"] = expected
             /\ request.sent.Host = expected

\* C22 as stated: after a call of either signer, giving any one header any
\* other value (values that differ only in leading or trailing whitespace
\* included) yields a different signature.
C22_AnyOtherValueOtherSignature ==
    (call.fn \in {"generate_aws_signature_v4", "generate_aws_signature_v4_simple"}
        /\ call.result.ok)
    => \A key \in DOMAIN call.input.headers :
         \A value \in HeaderValues \ {call.input.headers[key]} :
           LET in == call.input
               headers == [in.headers EXCEPT ![key] = value]
               other == IF call.fn = "generate_aws_signature_v4"
                        THEN generate_aws_signature_v4(in.method, in.url, headers,
                                 in.access_key, in.secret_key, in.region, in.timestamp)
                        ELSE generate_aws_signature_v4_simple(in.method, in.url, headers,
                                 in.access_key, in.secret_key, in.region, in.timestamp,
                                 in.content_hash)
           IN other.value.Signature # call.result.value.Signature

\* C22: after a call of either signer, giving any one header another value
\* yields a different signature exactly when the two values differ in more
\* than the whitespace before their first and after their last other character.
C22_OtherTrimmedValueOtherSignature ==
    (call.fn \in {"generate_aws_signature_v4", "generate_aws_signature_v4_simple"}
        /\ call.result.ok)
    => \A key \in DOMAIN call.input.headers :
         \A value \in HeaderValues \ {call.input.headers[key]} :
           LET in == call.input
               headers == [in.headers EXCEPT ![key] = value]
               other == IF call.fn = "generate_aws_signature_v4"
                        THEN generate_aws_signature_v4(in.method, in.url, headers,
                                 in.access_key, in.secret_key, in.region, in.timestamp)
                        ELSE generate_aws_signature_v4_simple(in.method, in.url, headers,
                                 in.access_key, in.secret_key, in.region, in.timestamp,
                                 in.content_hash)
               Inner(v) == LET filled == {i \in 1..Len(v) : v[i] # " "}
                           IN IF filled = {} THEN <<>>
                              ELSE SubSeq(v, CHOOSE i \in filled : \A j \in filled : i <= j,
                                             CHOOSE i \in filled : \A j \in filled : j <= i)
           IN (other.value.Signature # call.result.value.Signature)
              <=> (Inner(value) # Inner(in.headers[key]))

\* the uploader's signer has signed a header whose value ends in whitespace
C22_Witness ==
    /\ call.fn = "generate_aws_signature_v4_simple"
    /\ call.result.ok
    /\ \E key \in DOMAIN call.input.headers : call.input.headers[key] = <<"a", " ">>

\* C28: for every method, URL, header map, region and timestamp, the
\* prober's signer returns what the uploader's signer returns when it is
\* given the payload hash "UNSIGNED-PAYLOAD".
C28_SignersAgree ==
    /\ call.fn = "generate_aws_signature_v4"
       => call.result =
            generate_aws_signature_v4_simple(call.input.method, call.input.url,
                call.input.headers, call.input.access_key, call.input.secret_key,
                call.input.region, call.input.timestamp, "UNSIGNED-PAYLOAD")
    /\ (call.fn = "generate_aws_signature_v4_simple"
            /\ call.input.content_hash = "UNSIGNED-PAYLOAD")
       => call.result =
            generate_aws_signature_v4(call.input.method, call.input.url,
                call.input.headers, call.input.access_key, call.input.secret_key,
                call.input.region, call.input.timestamp)

\* the prober's signer has signed a header named in mixed case whose value
\* has whitespace in front
C28_Witness ==
    /\ call.fn = "generate_aws_signature_v4"
    /\ call.result.ok
    /\ "Host" \in DOMAIN call.input.headers
    /\ call.input.headers["Host"] = <<" ", "a">>

\* C23: parse_s3_listing returns, in scan order, exactly the pairs of the
\* i-th <Key> with the i-th <Size> whose key does not end in '/': the
\* result has one entry for each such pair and no other, in the order of
\* the pairs, so N pairs with one directory key give N-1 entries.
C23_PairsInScanOrder ==
    call.fn = "parse_s3_listing"
    => LET xml == call.input
           Nth(tag, i) ==
               CHOOSE p \in 1..Len(xml) :
                   /\ xml[p].tag = tag /\ xml[p].text # <<>>
                   /\ Cardinality({q \in 1..p : xml[q].tag = tag /\ xml[q].text # <<>>}) = i
           Count(tag) == Cardinality({p \in 1..Len(xml) : xml[p].tag = tag /\ xml[p].text # <<>>})
           N == IF Count("Key") <= Count("Size") THEN Count("Key") ELSE Count("Size")
           kept == {i \in 1..N : xml[Nth("Key", i)].text[Len(xml[Nth("Key", i)].text)] # "/"}
           files == call.result.value
       IN /\ call.result.ok
          /\ Len(files) = Cardinality(kept)
          /\ \A j \in 1..Len(files) :
                LET i == CHOOSE i \in kept : Cardinality({k \in kept : k <= i}) = j
                IN /\ files[j].key = xml[Nth("Key", i)].text
                   /\ files[j].size = IF xml[Nth("Size", i)].text = <<"1">> THEN 1 ELSE 0

\* a listing of two pairs whose first key is a directory has been parsed
\* into the one entry of the second pair
C23_Witness ==
    /\ call.fn = "parse_s3_listing"
    /\ call.input = <<Element("Key", <<"d", "/">>), Element("Key", <<"b">>),
                      Element("Size", <<"x">>), Element("Size", <<"1">>)>>
    /\ call.result = Ok(<<[key |-> <<"b">>, size |-> 1]>>)

\* C24: a successful listing response with <Key> elements but no <Size>
\* elements (or the reverse), or with a <Size> that is not a number, makes
\* the listing step fail with a parse error and return no entries; a
\* well-formed listing without file entries makes it fail with "No files
\* found".
C24_MalformedListingFails ==
    (call.fn = "list_dataset_files" /\ call.success)
    => LET xml == call.input[1]
           Matched(tag) == {p \in 1..Len(xml) : xml[p].tag = tag /\ xml[p].text # <<>>}
           malformed == \/ (Matched("Key") = {}) # (Matched("Size") = {})
                        \/ \E p \in Matched("Size") : ParseU64(xml[p].text) = None
       IN /\ malformed => /\ ~call.result.ok
                          /\ call.result.value # "No files found for dataset"
          /\ (~malformed /\ \A p \in Matched("Key") : xml[p].text[Len(xml[p].text)] = "/")
                => call.result = Err("No files found for dataset")

\* C25: when the provider splits the listing into several pages, the
\* listing step returns the entries of all pages, in order.
C25_AllPagesListed ==
    (call.fn = "list_dataset_files" /\ call.success /\ call.result.ok)
    => LET AllFiles[n \in 0..Len(call.input)] ==
               IF n = 0 THEN <<>>
               ELSE AllFiles[n - 1] \o parse_s3_listing(call.input[n]).value
       IN call.result.value = AllFiles[Len(call.input)]

C27_NoEmissionUnderLock ==
    [][\A w \in Workers : LockStep(w) => EmittedUnderLock(w) = None]_vars

\* C29: in every reachable state, an entry whose status is completed,
\* failed or cancelled has completed_at set.
C29_TerminalHasTimestamp ==
    \A task_id \in TaskIds :
        (Present(task_id) /\ downloads[task_id].status \in Terminal)
        => downloads[task_id].completed_at # None

\* an upload to S3 has been marked completed and another task has been cancelled
C29_Witness ==
    \E w \in Workers, other \in TaskIds :
        /\ At(w, "done") /\ workers[w].task_id # other
        /\ Present(workers[w].task_id)
        /\ downloads[workers[w].task_id].status = "completed"
        /\ downloads[workers[w].task_id].completed_files # None
        /\ Present(other)
        /\ downloads[other].status = "cancelled"

\* C30: in every reachable state, an entry whose status is completed has
\* progress 100.
C30_CompletedIsHundred ==
    \A task_id \in TaskIds :
        (Present(task_id) /\ downloads[task_id].status = "completed")
        => downloads[task_id].progress = Pct(100, 1)

\* C31: every step of a worker of task id A (its failure handler included),
\* every cancel of A and every cleanup of A leaves the registry entry of
\* every other task id unchanged.
C31_OtherEntriesUnchanged ==
    [][\A task_id \in TaskIds :
          (\E other \in TaskIds \ {task_id} : downloads'[other] # downloads[other])
          => ~(\/ EngineStep(task_id)
               \/ cancel_download_task(task_id)
               \/ cleanup_download_task(task_id))]_vars

\* a local download has written its progress while another task's entry is
\* in the registry with a progress of its own
C31_Witness ==
    \E w \in Workers, other \in TaskIds :
        /\ Spawn(w)
        /\ other # workers[w].task_id
        /\ Present(workers[w].task_id) /\ Present(other)
        /\ downloads[workers[w].task_id].downloaded_size > 0
        /\ downloads[workers[w].task_id].completed_files = None
        /\ downloads[other].downloaded_size = 0
        /\ downloads[other].status = "collecting"
====
